---- MODULE Spec2Model ----
(***************************************************************************)
(* Model of the include_tailwind! procedural macro (src/src/lib.rs).       *)
(*                                                                         *)
(* One expansion of the macro is a straight-line pipeline: parse the       *)
(* argument tokens, read CARGO_MANIFEST_DIR and pick the first argument of *)
(* each shape, resolve config / input / tailwindcss_bin against the        *)
(* process environment, turn each into a path and test that it exists,     *)
(* run the tailwindcss binary, test its exit status, validate its stdout   *)
(* as UTF-8 and emit it as a string literal.  Every abort ends the         *)
(* expansion.                                                              *)
(*                                                                         *)
(* Strings are sequences of atoms.  In paths the atom "/" is the separator *)
(* and every other atom is (part of) a file name; an environment variable  *)
(* name is a one-atom string.  Bytes are numbers 0..255.                   *)
(*                                                                         *)
(* The inputs of an expansion (argument tokens, process environment,       *)
(* CARGO_MANIFEST_DIR, behaviour of the external tool) are fixed by Init.  *)
(* The answer of each Path::exists call is chosen when the call is made.   *)
(***************************************************************************)
EXTENDS Naturals, Sequences, FiniteSets

VARIABLES
    args,            \* the macro's argument tokens, in call-site order
    env,             \* process environment: variable name -> Option<String>
    manifest_env,    \* the value of CARGO_MANIFEST_DIR: Option<String>
    tool,            \* what the external tool does when it is run
    pc,              \* position in include_tailwind
    parsed,          \* MacroArgs.args: the parsed Argument values
    manifest_path,   \* lib.rs:184
    explicit,        \* config / input / tailwindcss_bin of lib.rs:189-205
    env_name,        \* config_env / input_env / tailwindcss_bin_env of lib.rs:212-217
    value,           \* config / input / tailwindcss_bin of lib.rs:219-250
    path,            \* config_path / input_path / tailwindcss_bin_path
    env_reads,       \* log: every std::env::var call: the parameter it is for, the name
    path_checks,     \* log: every Path::exists call and its answer
    spawned,         \* log: every command handed to Command::output
    tw_proc_output,  \* lib.rs:314
    outcome,         \* what the expansion produced: nothing yet, a literal or an error
    trace            \* log: the stages executed, in order

vars == <<args, env, manifest_env, tool, pc, parsed, manifest_path, explicit,
          env_name, value, path, env_reads, path_checks, spawned,
          tw_proc_output, outcome, trace>>

inputs == <<args, env, manifest_env, tool>>

(***************************************************************************)
(* Bounds of the model.                                                    *)
(***************************************************************************)
\* Longest argument list.
MaxArgs == 3
\* Longest standard output of the external tool, in bytes.
MaxOut == 3

(***************************************************************************)
(* Option<T>                                                               *)
(***************************************************************************)
Some(v) == [some |-> TRUE, v |-> v]
None == [some |-> FALSE, v |-> <<>>]

(***************************************************************************)
(* The argument grammar: mod kw, enum Argument, Argument::parse.           *)
(***************************************************************************)
Params == <<"config", "input", "tailwindcss_bin">>
ParamSet == {Params[i] : i \in 1..Len(Params)}

\* mod kw: the six custom keywords, in the order Argument::parse peeks them.
Keywords ==
    <<"config", "config_env", "input", "input_env", "tailwindcss_bin", "tailwindcss_bin_env">>
KeywordSet == {Keywords[i] : i \in 1..Len(Keywords)}

\* The enum variant each keyword parses to.
Variant(kw) ==
    CASE kw = "config" -> "Config"
      [] kw = "config_env" -> "ConfigEnv"
      [] kw = "input" -> "Input"
      [] kw = "input_env" -> "InputEnv"
      [] kw = "tailwindcss_bin" -> "TailwindCssBin"
      [] kw = "tailwindcss_bin_env" -> "TailwindCssBinEnv"

\* A token group between commas: an identifier, an optional colon and a literal
\* that is a string literal (str) or some other token.
Token(k, c, s, v) == [key |-> k, colon |-> c, str |-> s, value |-> v]

Ok(a) == [ok |-> TRUE, arg |-> a]
Err == [ok |-> FALSE, arg |-> [variant |-> "", value |-> <<>>]]

\* Variation of ArgumentParse: the colon is not required.
ArgumentParse_NoColon(t) ==
    IF t.key \in KeywordSet
    THEN IF ~t.str THEN Err
         ELSE Ok([variant |-> Variant(t.key), value |-> t.value])
    ELSE Err

\* Argument::parse: lookahead on the keyword, then `:`, then a LitStr.
ArgumentParse(t) ==
    IF t.key \in KeywordSet
    THEN IF ~t.colon THEN Err
         ELSE IF ~t.str THEN Err
         ELSE Ok([variant |-> Variant(t.key), value |-> t.value])
    ELSE Err

\* Punctuated::parse_terminated: the index of the first token group that does not
\* parse, 0 when all parse.
RECURSIVE FirstBad(_, _)
FirstBad(ts, i) ==
    IF i > Len(ts) THEN 0
    ELSE IF ~ArgumentParse(ts[i]).ok THEN i
    ELSE FirstBad(ts, i + 1)

MacroArgsParse(ts) ==
    IF FirstBad(ts, 1) = 0
    THEN [ok |-> TRUE, bad |-> 0, args |-> [i \in 1..Len(ts) |-> ArgumentParse(ts[i]).arg]]
    ELSE [ok |-> FALSE, bad |-> FirstBad(ts, 1), args |-> <<>>]

as_config(a) == IF a.variant = "Config" THEN Some(a.value) ELSE None
as_config_env(a) == IF a.variant = "ConfigEnv" THEN Some(a.value) ELSE None
as_input(a) == IF a.variant = "Input" THEN Some(a.value) ELSE None
as_input_env(a) == IF a.variant = "InputEnv" THEN Some(a.value) ELSE None
as_tailwindcss_bin(a) == IF a.variant = "TailwindCssBin" THEN Some(a.value) ELSE None
as_tailwindcss_bin_env(a) == IF a.variant = "TailwindCssBinEnv" THEN Some(a.value) ELSE None

\* The accessor used for a parameter's explicit value and for its `_env` override.
AsValue(p, a) ==
    CASE p = "config" -> as_config(a)
      [] p = "input" -> as_input(a)
      [] p = "tailwindcss_bin" -> as_tailwindcss_bin(a)

AsEnv(p, a) ==
    CASE p = "config" -> as_config_env(a)
      [] p = "input" -> as_input_env(a)
      [] p = "tailwindcss_bin" -> as_tailwindcss_bin_env(a)

\* Variation of FilterMapNext: the last Some.
RECURSIVE FilterMapLast(_, _)
FilterMapLast(opts, i) ==
    IF i > Len(opts) THEN None
    ELSE LET rest == FilterMapLast(opts, i + 1)
         IN  IF rest.some THEN rest ELSE opts[i]

\* iter().filter_map(f).next() over options opts[i] = f(args[i]): the first Some.
RECURSIVE FilterMapNext(_, _)
FilterMapNext(opts, i) ==
    IF i > Len(opts) THEN None
    ELSE IF opts[i].some THEN opts[i]
    ELSE FilterMapNext(opts, i + 1)

SelectValue(as, p) == FilterMapNext([i \in 1..Len(as) |-> AsValue(p, as[i])], 1)
SelectEnv(as, p) == FilterMapNext([i \in 1..Len(as) |-> AsEnv(p, as[i])], 1)

\* The default environment variable of each parameter (lib.rs:213, 215, 217).
DefaultEnv(p) ==
    CASE p = "config" -> <<"TAILWINDCSS_CONFIG">>
      [] p = "input" -> <<"TAILWINDCSS_INPUT">>
      [] p = "tailwindcss_bin" -> <<"TAILWINDCSS_BIN">>

\* Option::unwrap_or
UnwrapOr(o, d) == IF o.some THEN o.v ELSE d

\* The variable name the error message of a missing parameter prints: the
\* format strings of lib.rs:224, 235, 246 spell the name out.
MessageEnv(p) ==
    CASE p = "config" -> <<"TAILWINDCSS_CONFIG">>
      [] p = "input" -> <<"TAILWINDCSS_INPUT">>
      [] p = "tailwindcss_bin" -> <<"TAILWINDCSS_BIN">>

(***************************************************************************)
(* Paths (std::path on a Unix target).                                     *)
(***************************************************************************)
Sep == "/"

\* Path::is_absolute / is_relative: a Unix path is absolute iff it has a root.
IsAbsolute(p) == Len(p) > 0 /\ p[1] = Sep
IsRelative(p) == ~IsAbsolute(p)

\* Path::join = PathBuf::push on a copy: an absolute argument replaces the base,
\* anything else is appended after a separator the base does not already end in.
Join(base, p) ==
    IF IsAbsolute(p) THEN p
    ELSE IF Len(base) > 0 /\ base[Len(base)] # Sep THEN base \o <<Sep>> \o p
    ELSE base \o p

\* Variation of Normalize: the manifest directory is prepended to every path.
Normalize_AlwaysPrepend(root, s) == root \o <<Sep>> \o s

\* lib.rs:252-258: parse::<PathBuf>() cannot fail and keeps the string; a
\* relative path is joined onto the manifest directory.
Normalize(root, s) == IF IsRelative(s) THEN Join(root, s) ELSE s

(***************************************************************************)
(* The external command and its result.                                    *)
(***************************************************************************)
\* lib.rs:306-312: Command::new(bin).arg("-c").arg(config).arg("-i").arg(input)
\* .arg("--minify")
Command(bin, config, input) ==
    [program |-> bin, argv |-> <<"-c", config, "-i", input, "--minify">>]

\* Variation of Success: the status is not looked at.
Success_Always(status) == TRUE

\* ExitStatus::success
Success(status) == status = 0

(***************************************************************************)
(* std::str::from_utf8 (lib.rs:323): validation of the byte string; the    *)
(* str it returns is the same bytes.                                       *)
(***************************************************************************)
InRange(b, lo, hi) == lo <= b /\ b <= hi
IsCont(b) == InRange(b, 128, 191)

\* The number of bytes of the well-formed UTF-8 sequence that starts at b[i],
\* 0 when there is none.
Utf8SeqLen(b, i) ==
    LET n == Len(b)
        first == b[i]
        cont(k) == i + k <= n /\ IsCont(b[i + k])
        second(lo, hi) == i + 1 <= n /\ InRange(b[i + 1], lo, hi)
    IN  IF first < 128 THEN 1
        ELSE IF InRange(first, 194, 223) THEN (IF cont(1) THEN 2 ELSE 0)
        ELSE IF first = 224 THEN (IF second(160, 191) /\ cont(2) THEN 3 ELSE 0)
        ELSE IF InRange(first, 225, 236) \/ InRange(first, 238, 239)
             THEN (IF cont(1) /\ cont(2) THEN 3 ELSE 0)
        ELSE IF first = 237 THEN (IF second(128, 159) /\ cont(2) THEN 3 ELSE 0)
        ELSE IF first = 240 THEN (IF second(144, 191) /\ cont(2) /\ cont(3) THEN 4 ELSE 0)
        ELSE IF InRange(first, 241, 243) THEN (IF cont(1) /\ cont(2) /\ cont(3) THEN 4 ELSE 0)
        ELSE IF first = 244 THEN (IF second(128, 143) /\ cont(2) /\ cont(3) THEN 4 ELSE 0)
        ELSE 0

RECURSIVE ValidUtf8From(_, _)
ValidUtf8From(b, i) ==
    IF i > Len(b) THEN TRUE
    ELSE IF Utf8SeqLen(b, i) = 0 THEN FALSE
    ELSE ValidUtf8From(b, i + Utf8SeqLen(b, i))

\* Variation of from_utf8: the bytes are taken as they are.
from_utf8_Unchecked(b) == Some(b)

from_utf8(b) == IF ValidUtf8From(b, 1) THEN Some(b) ELSE None

(***************************************************************************)
(* LitStr::new (lib.rs:328): the token is the text of a Rust string        *)
(* literal, quotes and escapes included.  LitValue is what the compiler    *)
(* reads back from that token when the caller's crate is compiled.         *)
(***************************************************************************)
Quote == 34
Backslash == 92

EscapeByte(c) ==
    CASE c = 9 -> <<Backslash, 116>>
      [] c = 10 -> <<Backslash, 110>>
      [] c = 13 -> <<Backslash, 114>>
      [] c = Quote -> <<Backslash, Quote>>
      [] c = Backslash -> <<Backslash, Backslash>>
      [] OTHER -> <<c>>

RECURSIVE EscapeFrom(_, _)
EscapeFrom(s, i) ==
    IF i > Len(s) THEN <<>> ELSE EscapeByte(s[i]) \o EscapeFrom(s, i + 1)

\* Variation of LitStrNew: the text is quoted and not escaped.
LitStrNew_Raw(s) == <<Quote>> \o s \o <<Quote>>

LitStrNew(s) == <<Quote>> \o EscapeFrom(s, 1) \o <<Quote>>

UnescapeByte(c) ==
    CASE c = 116 -> 9
      [] c = 110 -> 10
      [] c = 114 -> 13
      [] OTHER -> c

RECURSIVE UnescapeFrom(_, _)
UnescapeFrom(t, i) ==
    IF i > Len(t) THEN <<>>
    ELSE IF t[i] = Backslash /\ i < Len(t)
         THEN <<UnescapeByte(t[i + 1])>> \o UnescapeFrom(t, i + 2)
    ELSE <<t[i]>> \o UnescapeFrom(t, i + 1)

LitValue(lit) == UnescapeFrom(SubSeq(lit, 2, Len(lit) - 1), 1)

(***************************************************************************)
(* The inputs an expansion is run on.                                      *)
(***************************************************************************)
FileNames == <<"a", "b", "c", "d", "e", "f">>

\* The string literal of the i-th argument when it is a path: relative at odd
\* positions, absolute at even ones, a different file name at each position.
PathAt(i) ==
    LET name == FileNames[((i - 1) % Len(FileNames)) + 1]
    IN  IF i % 2 = 1 THEN <<name>> ELSE <<Sep, name>>

\* The string literal of the i-th argument when it names an environment
\* variable: two variables of the caller's own and the default variable of
\* another parameter, in turn.
OverrideNames == << <<"MY_A">>, <<"MY_B">>, <<"TAILWINDCSS_INPUT">> >>
NameAt(i) == OverrideNames[((i - 1) % Len(OverrideNames)) + 1]

EnvKeywords == {"config_env", "input_env", "tailwindcss_bin_env"}

WellFormedAt(i) ==
    {Token(k, TRUE, TRUE, IF k \in EnvKeywords THEN NameAt(i) ELSE PathAt(i)) :
        k \in KeywordSet}

\* One token group of each malformed shape: an unknown keyword, a missing colon
\* and a value that is not a string literal.
MalformedAt(i) ==
    { Token("output", TRUE, TRUE, PathAt(i)),
      Token("config", FALSE, TRUE, PathAt(i)),
      Token("input_env", TRUE, FALSE, <<>>) }

TokensAt(i, wellFormedOnly) ==
    IF wellFormedOnly THEN WellFormedAt(i) ELSE WellFormedAt(i) \cup MalformedAt(i)

\* The argument lists of at most n token groups.
RECURSIVE ArgLists(_, _)
ArgLists(n, wellFormedOnly) ==
    IF n = 0 THEN {<<>>}
    ELSE LET shorter == ArgLists(n - 1, wellFormedOnly)
         IN  shorter \cup
             {Append(l, t) : l \in {x \in shorter : Len(x) = n - 1},
                             t \in TokensAt(n, wellFormedOnly)}

DefaultNames == {DefaultEnv(p) : p \in ParamSet}
EnvNames == DefaultNames \cup {OverrideNames[i] : i \in 1..Len(OverrideNames)}

\* The value a variable has when it is set: a different path for each variable,
\* some relative and some absolute.
EnvValue(n) ==
    CASE n = <<"TAILWINDCSS_CONFIG">> -> <<"x">>
      [] n = <<"TAILWINDCSS_INPUT">> -> <<Sep, "y">>
      [] n = <<"TAILWINDCSS_BIN">> -> <<Sep, "z">>
      [] n = <<"MY_A">> -> <<Sep, "u">>
      [] n = <<"MY_B">> -> <<"v">>

\* The environments in which the variables of `unsettable` are set or not and
\* every other variable is set.
Envs(unsettable) ==
    {[n \in EnvNames |-> IF n \in unset THEN None ELSE Some(EnvValue(n))] :
        unset \in SUBSET unsettable}

ManifestDir == <<Sep, "r">>
RootDir == <<Sep>>

ExitCodes == {0, 1, 2}

\* Bytes the tool may write: \n " \ a, the two bytes of U+00E9 and the first two
\* of the three bytes of U+20A9.
OutBytes == {10, 34, 92, 97, 195, 169, 226, 130}

ByteStrings(n) == UNION {[1..k -> OutBytes] : k \in 0..n}

NotStarted == [started |-> FALSE, status |-> 0, stdout |-> <<>>]
Ran(status, out) == [started |-> TRUE, status |-> status, stdout |-> out]

ToolRuns(n) == {NotStarted} \cup {Ran(c, o) : c \in ExitCodes, o \in ByteStrings(n)}

\* A few runs of the tool, one for each way the last stages can end.
SomeToolRuns ==
    {NotStarted, Ran(1, <<97>>), Ran(0, <<97, 10>>), Ran(0, <<97, 169>>)}

(***************************************************************************)
(* The expansion.                                                          *)
(***************************************************************************)
NoOutcome == [kind |-> "none", param |-> "", var |-> <<>>, path |-> <<>>, lit |-> <<>>]
Failure(kind, param, var, p) ==
    [kind |-> kind, param |-> param, var |-> var, path |-> p, lit |-> <<>>]
Embedded(lit) ==
    [kind |-> "Embedded", param |-> "", var |-> <<>>, path |-> <<>>, lit |-> lit]

Unset == [p \in ParamSet |-> None]

InitWith(argLists, envs, manifests, tools) ==
    /\ args \in argLists
    /\ env \in envs
    /\ manifest_env \in manifests
    /\ tool \in tools
    /\ pc = "parse"
    /\ parsed = <<>>
    /\ manifest_path = <<>>
    /\ explicit = Unset
    /\ env_name = [p \in ParamSet |-> <<>>]
    /\ value = Unset
    /\ path = Unset
    /\ env_reads = <<>>
    /\ path_checks = <<>>
    /\ spawned = <<>>
    /\ tw_proc_output = None
    /\ outcome = NoOutcome
    /\ trace = <<>>

\* Any argument list, any environment, one manifest directory, a tool that works.
Init ==
    InitWith(ArgLists(MaxArgs, FALSE), Envs(EnvNames), {Some(ManifestDir)},
             {Ran(0, <<97>>)})

\* Well-formed argument lists, the default variables set or not, the manifest
\* directory a directory or the file system's root, a tool that ends each way.
InitPipeline ==
    InitWith(ArgLists(MaxArgs, TRUE), Envs(DefaultNames),
             {Some(ManifestDir), Some(RootDir)}, SomeToolRuns)

\* No arguments, every variable set, any run of the tool; CARGO_MANIFEST_DIR may
\* be missing.
InitOutput ==
    InitWith({<<>>}, Envs({}), {Some(ManifestDir), None}, ToolRuns(MaxOut))

Abort(o) ==
    /\ outcome' = o
    /\ pc' = "done"

\* lib.rs:182: parse_macro_input!(item as MacroArgs)
Parse ==
    /\ pc = "parse"
    /\ trace' = Append(trace, "parse")
    /\ LET r == MacroArgsParse(args)
       IN  IF r.ok
           THEN /\ parsed' = r.args
                /\ pc' = "setup"
                /\ UNCHANGED outcome
           ELSE /\ Abort(Failure("SyntaxError", "", <<>>, <<>>))
                /\ UNCHANGED parsed
    /\ UNCHANGED <<inputs, manifest_path, explicit, env_name, value, path,
                   env_reads, path_checks, spawned, tw_proc_output>>

\* lib.rs:184-217: CARGO_MANIFEST_DIR, the first argument of each shape, the
\* environment variable names.
Setup ==
    /\ pc = "setup"
    /\ trace' = Append(trace, "setup")
    /\ env_reads' = Append(env_reads, [param |-> "", name |-> <<"CARGO_MANIFEST_DIR">>])
    /\ IF manifest_env.some
       THEN /\ manifest_path' = manifest_env.v
            /\ explicit' = [p \in ParamSet |-> SelectValue(parsed, p)]
            /\ env_name' = [p \in ParamSet |-> UnwrapOr(SelectEnv(parsed, p), DefaultEnv(p))]
            /\ pc' = "resolve_config"
            /\ UNCHANGED outcome
       ELSE /\ Abort(Failure("Panic", "", <<"CARGO_MANIFEST_DIR">>, <<>>))
            /\ UNCHANGED <<manifest_path, explicit, env_name>>
    /\ UNCHANGED <<inputs, parsed, value, path, path_checks, spawned, tw_proc_output>>

\* Variation of Lookup: the environment variable wins over the explicit value.
Lookup_EnvFirst(expl, name, e) ==
    IF e[name].some
    THEN [read |-> Some(name), val |-> e[name]]
    ELSE [read |-> None, val |-> expl]

\* The match of lib.rs:219-228 (230-239, 241-250): the variable read, if any, and
\* the value found, if any.
Lookup(expl, name, e) ==
    IF expl.some
    THEN [read |-> None, val |-> expl]
    ELSE [read |-> Some(name), val |-> e[name]]

Resolve(p, next) ==
    /\ pc = "resolve_" \o p
    /\ trace' = Append(trace, "resolve_" \o p)
    /\ LET r == Lookup(explicit[p], env_name[p], env)
       IN  /\ env_reads' = IF r.read.some
                           THEN Append(env_reads, [param |-> p, name |-> r.read.v])
                           ELSE env_reads
           /\ IF r.val.some
              THEN /\ value' = [value EXCEPT ![p] = r.val]
                   /\ pc' = next
                   /\ UNCHANGED outcome
              ELSE /\ Abort(Failure("MissingParameterError", p, MessageEnv(p), <<>>))
                   /\ UNCHANGED value
    /\ UNCHANGED <<inputs, parsed, manifest_path, explicit, env_name, path,
                   path_checks, spawned, tw_proc_output>>

\* Variation of ResolveConfig: the config path is checked before the other
\* parameters are resolved.
ResolveConfig_ThenCheck == Resolve("config", "check_config")

ResolveConfig == Resolve("config", "resolve_input")
ResolveInput == Resolve("input", "resolve_tailwindcss_bin")
ResolveBin == Resolve("tailwindcss_bin", "check_config")

\* Variation of PathOk: the answer is not looked at.
PathOk_Ignored(exists) == TRUE

\* The test of lib.rs:259 (276, 296) on the answer of Path::exists.
PathOk(exists) == exists

\* lib.rs:252-267 (269-284, 286-304): the path, then Path::exists.
Check(p, next) ==
    /\ pc = "check_" \o p
    /\ trace' = Append(trace, "check_" \o p)
    /\ LET full == Normalize(manifest_path, value[p].v)
       IN  /\ path' = [path EXCEPT ![p] = Some(full)]
           /\ \E exists \in BOOLEAN :
                /\ path_checks' = Append(path_checks, [param |-> p, path |-> full, ok |-> exists])
                /\ IF PathOk(exists)
                   THEN /\ pc' = next
                        /\ UNCHANGED outcome
                   ELSE Abort(Failure("PathNotFoundError", p, <<>>, full))
    /\ UNCHANGED <<inputs, parsed, manifest_path, explicit, env_name, value,
                   env_reads, spawned, tw_proc_output>>

CheckConfig == Check("config", "check_input")
CheckInput == Check("input", "check_tailwindcss_bin")
CheckBin == Check("tailwindcss_bin", "spawn")

\* lib.rs:306-317: run the tool to completion.
Spawn ==
    /\ pc = "spawn"
    /\ trace' = Append(trace, "spawn")
    /\ spawned' = Append(spawned,
            Command(path["tailwindcss_bin"].v, path["config"].v, path["input"].v))
    /\ IF tool.started
       THEN /\ tw_proc_output' = Some([status |-> tool.status, stdout |-> tool.stdout])
            /\ pc' = "exit_status"
            /\ UNCHANGED outcome
       ELSE /\ Abort(Failure("ProcessSpawnError", "", <<>>, <<>>))
            /\ UNCHANGED tw_proc_output
    /\ UNCHANGED <<inputs, parsed, manifest_path, explicit, env_name, value, path,
                   env_reads, path_checks>>

\* lib.rs:319-321
ExitStatus ==
    /\ pc = "exit_status"
    /\ trace' = Append(trace, "exit_status")
    /\ IF Success(tw_proc_output.v.status)
       THEN /\ pc' = "decode"
            /\ UNCHANGED outcome
       ELSE Abort(Failure("ProcessExitError", "", <<>>, <<>>))
    /\ UNCHANGED <<inputs, parsed, manifest_path, explicit, env_name, value, path,
                   env_reads, path_checks, spawned, tw_proc_output>>

\* lib.rs:323-333
Decode ==
    /\ pc = "decode"
    /\ trace' = Append(trace, "decode")
    /\ LET tw_content_str == from_utf8(tw_proc_output.v.stdout)
       IN  IF tw_content_str.some
           THEN Abort(Embedded(LitStrNew(tw_content_str.v)))
           ELSE Abort(Failure("EncodingError", "", <<>>, <<>>))
    /\ UNCHANGED <<inputs, parsed, manifest_path, explicit, env_name, value, path,
                   env_reads, path_checks, spawned, tw_proc_output>>

Next ==
    \/ Parse
    \/ Setup
    \/ ResolveConfig
    \/ ResolveInput
    \/ ResolveBin
    \/ CheckConfig
    \/ CheckInput
    \/ CheckBin
    \/ Spawn
    \/ ExitStatus
    \/ Decode

Spec == Init /\ [][Next]_vars
SpecPipeline == InitPipeline /\ [][Next]_vars
SpecOutput == InitOutput /\ [][Next]_vars

(***************************************************************************)
(* Vocabulary of the properties.                                           *)
(***************************************************************************)
Done == pc = "done"
StageRan(stage) == \E i \in 1..Len(trace) : trace[i] = stage
Last(q) == q[Len(q)]
IsPrefix(q, r) == Len(q) <= Len(r) /\ \A i \in 1..Len(q) : q[i] = r[i]

\* The positions of the arguments written with keyword k.
Occurrences(k) == {i \in 1..Len(args) : args[i].key = k}
First(S) == CHOOSE i \in S : \A j \in S : i <= j
EnvKeyword(p) == p \o "_env"

\* A token group of one of the six recognized shapes.
Recognized(t) ==
    /\ t.key \in {"config", "config_env", "input", "input_env",
                  "tailwindcss_bin", "tailwindcss_bin_env"}
    /\ t.colon
    /\ t.str
AllRecognized == \A i \in 1..Len(args) : Recognized(args[i])

ReadsFor(p) == {env_reads[i].name : i \in {j \in 1..Len(env_reads) : env_reads[j].param = p}}

\* The file names of a path: its maximal runs of atoms other than the separator.
RECURSIVE Components(_)
Components(q) ==
    IF q = <<>> THEN <<>>
    ELSE IF Head(q) = "/" THEN Components(Tail(q))
    ELSE LET rest == Components(Tail(q))
         IN  IF Len(q) > 1 /\ q[2] # "/"
             THEN <<(<<Head(q)>> \o Head(rest))>> \o Tail(rest)
             ELSE << <<Head(q)>> >> \o rest

\* The UTF-8 encoding of a Unicode scalar value of the basic plane.
Utf8Encode(c) ==
    IF c < 128 THEN <<c>>
    ELSE IF c < 2048 THEN <<192 + (c \div 64), 128 + (c % 64)>>
    ELSE <<224 + (c \div 4096), 128 + ((c \div 64) % 64), 128 + (c % 64)>>

ScalarValues == (0..55295) \cup (57344..65535)

\* The encodings of single scalar values that OutBytes can spell.
Units ==
    {Utf8Encode(c) : c \in {d \in ScalarValues :
        \A i \in 1..Len(Utf8Encode(d)) : Utf8Encode(d)[i] \in OutBytes}}

\* b[i..] is the encoding of a sequence of scalar values.
RECURSIVE IsTextFrom(_, _)
IsTextFrom(b, i) ==
    \/ i > Len(b)
    \/ \E u \in Units :
          /\ i + Len(u) - 1 <= Len(b)
          /\ SubSeq(b, i, i + Len(u) - 1) = u
          /\ IsTextFrom(b, i + Len(u))
IsText(b) == IsTextFrom(b, 1)

ToolExited == tw_proc_output.some
Status == tw_proc_output.v.status
Stdout == tw_proc_output.v.stdout

(***************************************************************************)
(* C1.  A parameter's resolved string is its explicit argument when it has *)
(* one, and then no environment variable is read for it; otherwise it is   *)
(* the value of a variable named by its `_env` argument when it has one,   *)
(* and then no other variable is read for it, the default one included;    *)
(* otherwise it is the value of its default variable.                      *)
(***************************************************************************)
C1_ResolutionPrecedence ==
    \A p \in ParamSet :
        LET given == {args[i].value : i \in Occurrences(p)}
            named == {args[i].value : i \in Occurrences(EnvKeyword(p))}
            default == CASE p = "config" -> <<"TAILWINDCSS_CONFIG">>
                         [] p = "input" -> <<"TAILWINDCSS_INPUT">>
                         [] p = "tailwindcss_bin" -> <<"TAILWINDCSS_BIN">>
        IN  /\ given # {} => ReadsFor(p) = {}
            /\ given = {} /\ named # {} => ReadsFor(p) \subseteq named
            /\ given = {} /\ named = {} => ReadsFor(p) \subseteq {default}
            /\ value[p].some =>
                 IF given # {} THEN value[p].v \in given
                 ELSE IF named # {}
                      THEN \E n \in named : env[n].some /\ value[p].v = env[n].v
                      ELSE env[default].some /\ value[p].v = env[default].v

\* A parameter resolved from the variable its `_env` argument names while its
\* default variable is set too, to something else.
C1_Witness ==
    \E p \in ParamSet :
        /\ Occurrences(p) = {}
        /\ Occurrences(EnvKeyword(p)) # {}
        /\ value[p].some
        /\ env[DefaultEnv(p)].some
        /\ env[DefaultEnv(p)].v # value[p].v

(***************************************************************************)
(* C2.  When the resolution of a parameter finds no explicit argument and  *)
(* the variable it reads is not set, the expansion fails with a            *)
(* MissingParameterError that names the parameter and the variable that    *)
(* was read.                                                               *)
(***************************************************************************)
C2_MissingParameterNamesCheckedVariable ==
    \A p \in ParamSet :
        (/\ Done
         /\ Last(trace) = "resolve_" \o p
         /\ Occurrences(p) = {}
         /\ ~env[Last(env_reads).name].some)
        => /\ outcome.kind = "MissingParameterError"
           /\ outcome.param = p
           /\ outcome.var = Last(env_reads).name

(***************************************************************************)
(* C3.  The path of every existence check, and every path handed to the    *)
(* subprocess, is the resolved string itself when that string is absolute, *)
(* and otherwise the absolute path whose file names are those of the       *)
(* manifest directory followed by those of the resolved string.            *)
(***************************************************************************)
C3_Expected(p, full) ==
    LET s == value[p].v
    IN  IF s # <<>> /\ s[1] = "/"
        THEN full = s
        ELSE /\ full # <<>> /\ full[1] = "/"
             /\ Components(full) = Components(manifest_env.v) \o Components(s)

C3_PathNormalization ==
    /\ \A i \in 1..Len(path_checks) :
          C3_Expected(path_checks[i].param, path_checks[i].path)
    /\ \A i \in 1..Len(spawned) :
          /\ C3_Expected("tailwindcss_bin", spawned[i].program)
          /\ C3_Expected("config", spawned[i].argv[2])
          /\ C3_Expected("input", spawned[i].argv[4])

\* The tool was run on a relative and an absolute parameter.
C3_Witness ==
    /\ spawned # <<>>
    /\ \E p, q \in ParamSet :
          /\ value[p].v[1] = "/"
          /\ value[q].v[1] # "/"

(***************************************************************************)
(* C4.  A failed existence check ends the expansion with a                 *)
(* PathNotFoundError for that parameter and nothing is spawned; whenever a *)
(* command has been spawned, the existence checks of config, input and     *)
(* tailwindcss_bin, in this order, came before and all succeeded.          *)
(***************************************************************************)
C4_NoSpawnWithoutPaths ==
    /\ \A i \in 1..Len(path_checks) :
          ~path_checks[i].ok =>
              /\ Done
              /\ outcome.kind = "PathNotFoundError"
              /\ outcome.param = path_checks[i].param
              /\ outcome.path = path_checks[i].path
              /\ spawned = <<>>
              /\ ~StageRan("spawn")
    /\ spawned # <<>> =>
          /\ [i \in 1..Len(path_checks) |-> path_checks[i].param]
                = <<"config", "input", "tailwindcss_bin">>
          /\ \A i \in 1..Len(path_checks) : path_checks[i].ok

\* The tool's path is missing after config and input were found.
C4_Witness ==
    /\ Done
    /\ Len(path_checks) = 3
    /\ path_checks[1].ok /\ path_checks[2].ok /\ ~path_checks[3].ok

(***************************************************************************)
(* C5.  After the tool exits with a status other than zero the expansion   *)
(* ends with a ProcessExitError: its output is never decoded and no        *)
(* literal is produced, whatever the output is.                            *)
(***************************************************************************)
C5_NonZeroExit ==
    (ToolExited /\ Status # 0) =>
        /\ ~StageRan("decode")
        /\ outcome.kind \in {"none", "ProcessExitError"}
        /\ outcome.lit = <<>>
        /\ Done => outcome.kind = "ProcessExitError"

\* The tool failed after writing text that would have decoded.
C5_Witness ==
    /\ Done
    /\ ToolExited /\ Status # 0
    /\ Stdout # <<>> /\ IsText(Stdout)

(***************************************************************************)
(* C6.  When the tool exits with status zero and its output is UTF-8, the  *)
(* expansion ends with a literal whose value is that output, byte for      *)
(* byte.                                                                   *)
(***************************************************************************)
C6_EmbedsOutputVerbatim ==
    (Done /\ ToolExited /\ Status = 0 /\ IsText(Stdout)) =>
        /\ outcome.kind = "Embedded"
        /\ LitValue(outcome.lit) = Stdout

\* Output with a character the literal escapes and a character outside ASCII.
C6_Witness ==
    /\ Done
    /\ outcome.kind = "Embedded"
    /\ \E i, k \in 1..Len(Stdout) :
          Stdout[i] \in {10, 34, 92} /\ Stdout[k] > 127

(***************************************************************************)
(* C7.  When the tool exits with status zero and its output is not UTF-8,  *)
(* the expansion ends with an EncodingError and no literal.                *)
(***************************************************************************)
C7_RejectsMalformedUtf8 ==
    (Done /\ ToolExited /\ Status = 0 /\ ~IsText(Stdout)) =>
        /\ outcome.kind = "EncodingError"
        /\ outcome.lit = <<>>

\* Output that is text up to its last byte.
C7_Witness ==
    /\ Done
    /\ outcome.kind = "EncodingError"
    /\ Len(Stdout) > 1
    /\ IsText(SubSeq(Stdout, 1, Len(Stdout) - 1))

(***************************************************************************)
(* C8.  When some argument is not of a recognized shape, the expansion     *)
(* does nothing but parse: it reads no environment variable, checks no     *)
(* path and spawns nothing, and it ends with a SyntaxError.                *)
(***************************************************************************)
C8_SyntaxErrorBeforeResolution ==
    ~AllRecognized =>
        /\ IsPrefix(trace, <<"parse">>)
        /\ env_reads = <<>>
        /\ path_checks = <<>>
        /\ spawned = <<>>
        /\ value = [p \in ParamSet |-> None]
        /\ outcome.kind \in {"none", "SyntaxError"}
        /\ Done => outcome.kind = "SyntaxError"

\* A malformed argument after two recognized ones.
C8_Witness ==
    /\ Done
    /\ outcome.kind = "SyntaxError"
    /\ Len(args) = 3
    /\ Recognized(args[1]) /\ Recognized(args[2]) /\ ~Recognized(args[3])

(***************************************************************************)
(* C9.  The stages run in one fixed order, each at most once; the          *)
(* expansion has an outcome exactly when it has ended; every stage before  *)
(* the last one run succeeded; and the outcome is the error of the last    *)
(* stage run when that stage failed, the literal otherwise.  A missing     *)
(* parameter is therefore reported before any path is looked at.           *)
(***************************************************************************)
StageOrder ==
    <<"parse", "setup", "resolve_config", "resolve_input", "resolve_tailwindcss_bin",
      "check_config", "check_input", "check_tailwindcss_bin",
      "spawn", "exit_status", "decode">>

\* Whether a stage that has run failed, from the inputs and the answers it got.
StageFailed(stage) ==
    CASE stage = "parse" -> ~AllRecognized
      [] stage = "setup" -> ~manifest_env.some
      [] stage \in {"resolve_config", "resolve_input", "resolve_tailwindcss_bin"} ->
            \E p \in ParamSet :
               /\ stage = "resolve_" \o p
               /\ Occurrences(p) = {}
               /\ \A i \in 1..Len(env_reads) :
                     env_reads[i].param = p => ~env[env_reads[i].name].some
      [] stage \in {"check_config", "check_input", "check_tailwindcss_bin"} ->
            \E i \in 1..Len(path_checks) :
               stage = "check_" \o path_checks[i].param /\ ~path_checks[i].ok
      [] stage = "spawn" -> ~tool.started
      [] stage = "exit_status" -> tool.status # 0
      [] stage = "decode" -> ~IsText(tool.stdout)

ErrorOf(stage) ==
    CASE stage = "parse" -> "SyntaxError"
      [] stage = "setup" -> "Panic"
      [] stage \in {"resolve_config", "resolve_input", "resolve_tailwindcss_bin"} ->
            "MissingParameterError"
      [] stage \in {"check_config", "check_input", "check_tailwindcss_bin"} ->
            "PathNotFoundError"
      [] stage = "spawn" -> "ProcessSpawnError"
      [] stage = "exit_status" -> "ProcessExitError"
      [] stage = "decode" -> "EncodingError"

C9_StagesInOrderFirstFailureReported ==
    /\ IsPrefix(trace, StageOrder)
    /\ Done <=> outcome.kind # "none"
    /\ \A i \in 1..(Len(trace) - 1) : ~StageFailed(trace[i])
    /\ ~Done /\ trace # <<>> => ~StageFailed(Last(trace))
    /\ Done =>
          /\ trace # <<>>
          /\ IF StageFailed(Last(trace))
             THEN outcome.kind = ErrorOf(Last(trace))
             ELSE Last(trace) = "decode" /\ outcome.kind = "Embedded"
    /\ outcome.kind = "MissingParameterError" => path_checks = <<>> /\ path = [p \in ParamSet |-> None]
    /\ outcome.kind = "PathNotFoundError" => \A p \in ParamSet : value[p].some

\* The tool's path is the only parameter missing: the error is reported with
\* config and input resolved and no path looked at.
C9_Witness ==
    /\ Done
    /\ outcome.kind = "MissingParameterError"
    /\ outcome.param = "tailwindcss_bin"
    /\ value["config"].some /\ value["input"].some
    /\ path_checks = <<>>

(***************************************************************************)
(* C10.  Of several arguments written with the same keyword the first is   *)
(* the one in effect, for each of the six keywords and wherever arguments  *)
(* of other keywords stand; the later ones raise no error.                 *)
(***************************************************************************)
C10_FirstOccurrenceWins ==
    /\ AllRecognized => outcome.kind # "SyntaxError"
    /\ (StageRan("setup") /\ manifest_env.some) =>
          \A p \in ParamSet :
             /\ Occurrences(p) # {} =>
                   explicit[p] = [some |-> TRUE, v |-> args[First(Occurrences(p))].value]
             /\ Occurrences(EnvKeyword(p)) # {} =>
                   env_name[p] = args[First(Occurrences(EnvKeyword(p)))].value

\* The same keyword first and third, another keyword between them, and the
\* expansion past the choice of arguments.
C10_Witness ==
    /\ StageRan("resolve_tailwindcss_bin")
    /\ Len(args) = 3
    /\ args[1].key = args[3].key
    /\ args[1].key # args[2].key
    /\ args[1].value # args[3].value

====
